---------------------------- MODULE Spec2Model ----------------------------
(***************************************************************************)
(* dns-kv: a key/value store tunnelled through DNS queries.                *)
(*                                                                         *)
(* Text is modelled as the sequence of its UTF-8 bytes, a byte string as   *)
(* a sequence of 0..255.  The store (DATABASE) is a function from key text *)
(* to value text.  Every acquisition of the store lock is one atomic step  *)
(* of a server task, and so are the parsing of its datagram and the        *)
(* sending of its reply; the tasks of different datagrams interleave       *)
(* freely, as tokio's multi-threaded runtime lets them.                    *)
(***************************************************************************)
EXTENDS Integers, Sequences, FiniteSets, TLC

(***************************************************************************)
(* Program constants.                                                      *)
(***************************************************************************)
\* client.rs: const MAX_FQDN: usize = 63
MAX_FQDN == 63
\* server.rs parse_txt_query: value.len().min(255); client.rs get_value: data.len() < 255
MAX_TXT == 255

(***************************************************************************)
(* Bounds of the model.                                                    *)
(***************************************************************************)
\* number of commands (client invocations or datagrams of another peer) run
\* in all under Spec; SpecWide runs one more
MaxOps == 2

(***************************************************************************)
(* Characters.                                                             *)
(***************************************************************************)
DOT == <<46>>
\* server.rs parse_txt_query: unwrap_or("AAAA".to_string())
DEFAULT_MARKER == <<65, 65, 65, 65>>

\* a continuation byte of UTF-8
IsCont(c) == c >= 128 /\ c <= 191
\* the length of the well-formed UTF-8 sequence that starts at s[i], or 0:
\* no overlong form, no surrogate, nothing above U+10FFFF
Utf8Len(s, i) ==
    LET c  == s[i]
        b2 == IF i + 1 <= Len(s) THEN s[i + 1] ELSE 0
        b3 == IF i + 2 <= Len(s) THEN s[i + 2] ELSE 0
        b4 == IF i + 3 <= Len(s) THEN s[i + 3] ELSE 0
    IN IF c < 128 THEN 1
       ELSE IF c >= 194 /\ c <= 223
            THEN (IF IsCont(b2) THEN 2 ELSE 0)
       ELSE IF c >= 224 /\ c <= 239
            THEN (IF /\ b2 >= (IF c = 224 THEN 160 ELSE 128)
                     /\ b2 <= (IF c = 237 THEN 159 ELSE 191)
                     /\ IsCont(b3)
                  THEN 3 ELSE 0)
       ELSE IF c >= 240 /\ c <= 244
            THEN (IF /\ b2 >= (IF c = 240 THEN 144 ELSE 128)
                     /\ b2 <= (IF c = 244 THEN 143 ELSE 191)
                     /\ IsCont(b3) /\ IsCont(b4)
                  THEN 4 ELSE 0)
       ELSE 0
\* String::from_utf8(bytes).is_ok(): the bytes are a run of well-formed
\* sequences, each one starting where the one before it ends
IsUtf8(s) ==
    /\ Len(s) > 0 => ~IsCont(s[1])
    /\ \A i \in 1..Len(s) : ~IsCont(s[i]) =>
          /\ Utf8Len(s, i) > 0
          /\ i + Utf8Len(s, i) <= Len(s) => ~IsCont(s[i + Utf8Len(s, i)])

\* the code point of the well-formed UTF-8 sequence that starts at s[i]
CodePoint(s, i) ==
    LET c == s[i] IN
    IF c < 128 THEN c
    ELSE IF c < 224 THEN (c - 192) * 64 + (s[i + 1] - 128)
    ELSE IF c < 240
         THEN (c - 224) * 4096 + (s[i + 1] - 128) * 64 + (s[i + 2] - 128)
    ELSE (c - 240) * 262144 + (s[i + 1] - 128) * 4096
             + (s[i + 2] - 128) * 64 + (s[i + 3] - 128)
\* char::encode_utf8
encode_utf8(cp) ==
    IF cp < 128 THEN <<cp>>
    ELSE IF cp < 2048 THEN <<192 + (cp \div 64), 128 + (cp % 64)>>
    ELSE IF cp < 65536
         THEN <<224 + (cp \div 4096), 128 + ((cp \div 64) % 64), 128 + (cp % 64)>>
    ELSE <<240 + (cp \div 262144), 128 + ((cp \div 4096) % 64),
           128 + ((cp \div 64) % 64), 128 + (cp % 64)>>

\* the simple upper-case mappings of the characters above U+007F (Unicode
\* 17.0), as runs <<first, last, step, upper case of first>>: the
\* characters first, first + step, .. last map to consecutive targets the
\* same step apart; the last eight runs are the pairs added since Unicode
\* 14.0 (U+019B, U+0264, U+1C8A, six letters of Latin Extended-D, Garay
\* and Beria Erfe)
UPPERCASE_TABLE ==
  <<
     <<181, 181, 1, 924>>, <<224, 246, 1, 192>>, <<248, 254, 1, 216>>,
     <<255, 255, 1, 376>>, <<257, 303, 2, 256>>, <<305, 305, 1, 73>>,
     <<307, 311, 2, 306>>, <<314, 328, 2, 313>>, <<331, 375, 2, 330>>,
     <<378, 382, 2, 377>>, <<383, 383, 1, 83>>, <<384, 384, 1, 579>>,
     <<387, 389, 2, 386>>, <<392, 392, 1, 391>>, <<396, 396, 1, 395>>,
     <<402, 402, 1, 401>>, <<405, 405, 1, 502>>, <<409, 409, 1, 408>>,
     <<410, 410, 1, 573>>, <<414, 414, 1, 544>>, <<417, 421, 2, 416>>,
     <<424, 424, 1, 423>>, <<429, 429, 1, 428>>, <<432, 432, 1, 431>>,
     <<436, 438, 2, 435>>, <<441, 441, 1, 440>>, <<445, 445, 1, 444>>,
     <<447, 447, 1, 503>>, <<453, 453, 1, 452>>, <<454, 454, 1, 452>>,
     <<456, 456, 1, 455>>, <<457, 457, 1, 455>>, <<459, 459, 1, 458>>,
     <<460, 460, 1, 458>>, <<462, 476, 2, 461>>, <<477, 477, 1, 398>>,
     <<479, 495, 2, 478>>, <<498, 498, 1, 497>>, <<499, 499, 1, 497>>,
     <<501, 501, 1, 500>>, <<505, 543, 2, 504>>, <<547, 563, 2, 546>>,
     <<572, 572, 1, 571>>, <<575, 576, 1, 11390>>, <<578, 578, 1, 577>>,
     <<583, 591, 2, 582>>, <<592, 592, 1, 11375>>, <<593, 593, 1, 11373>>,
     <<594, 594, 1, 11376>>, <<595, 595, 1, 385>>, <<596, 596, 1, 390>>,
     <<598, 599, 1, 393>>, <<601, 601, 1, 399>>, <<603, 603, 1, 400>>,
     <<604, 604, 1, 42923>>, <<608, 608, 1, 403>>, <<609, 609, 1, 42924>>,
     <<611, 611, 1, 404>>, <<613, 613, 1, 42893>>, <<614, 614, 1, 42922>>,
     <<616, 616, 1, 407>>, <<617, 617, 1, 406>>, <<618, 618, 1, 42926>>,
     <<619, 619, 1, 11362>>, <<620, 620, 1, 42925>>, <<623, 623, 1, 412>>,
     <<625, 625, 1, 11374>>, <<626, 626, 1, 413>>, <<629, 629, 1, 415>>,
     <<637, 637, 1, 11364>>, <<640, 640, 1, 422>>, <<642, 642, 1, 42949>>,
     <<643, 643, 1, 425>>, <<647, 647, 1, 42929>>, <<648, 648, 1, 430>>,
     <<649, 649, 1, 580>>, <<650, 651, 1, 433>>, <<652, 652, 1, 581>>,
     <<658, 658, 1, 439>>, <<669, 669, 1, 42930>>, <<670, 670, 1, 42928>>,
     <<837, 837, 1, 921>>, <<881, 883, 2, 880>>, <<887, 887, 1, 886>>,
     <<891, 893, 1, 1021>>, <<940, 940, 1, 902>>, <<941, 943, 1, 904>>,
     <<945, 961, 1, 913>>, <<962, 962, 1, 931>>, <<963, 971, 1, 931>>,
     <<972, 972, 1, 908>>, <<973, 974, 1, 910>>, <<976, 976, 1, 914>>,
     <<977, 977, 1, 920>>, <<981, 981, 1, 934>>, <<982, 982, 1, 928>>,
     <<983, 983, 1, 975>>, <<985, 1007, 2, 984>>, <<1008, 1008, 1, 922>>,
     <<1009, 1009, 1, 929>>, <<1010, 1010, 1, 1017>>,
     <<1011, 1011, 1, 895>>, <<1013, 1013, 1, 917>>,
     <<1016, 1016, 1, 1015>>, <<1019, 1019, 1, 1018>>,
     <<1072, 1103, 1, 1040>>, <<1104, 1119, 1, 1024>>,
     <<1121, 1153, 2, 1120>>, <<1163, 1215, 2, 1162>>,
     <<1218, 1230, 2, 1217>>, <<1231, 1231, 1, 1216>>,
     <<1233, 1327, 2, 1232>>, <<1377, 1414, 1, 1329>>,
     <<4304, 4346, 1, 7312>>, <<4349, 4351, 1, 7357>>,
     <<5112, 5117, 1, 5104>>, <<7296, 7296, 1, 1042>>,
     <<7297, 7297, 1, 1044>>, <<7298, 7298, 1, 1054>>,
     <<7299, 7300, 1, 1057>>, <<7301, 7301, 1, 1058>>,
     <<7302, 7302, 1, 1066>>, <<7303, 7303, 1, 1122>>,
     <<7304, 7304, 1, 42570>>, <<7545, 7545, 1, 42877>>,
     <<7549, 7549, 1, 11363>>, <<7566, 7566, 1, 42950>>,
     <<7681, 7829, 2, 7680>>, <<7835, 7835, 1, 7776>>,
     <<7841, 7935, 2, 7840>>, <<7936, 7943, 1, 7944>>,
     <<7952, 7957, 1, 7960>>, <<7968, 7975, 1, 7976>>,
     <<7984, 7991, 1, 7992>>, <<8000, 8005, 1, 8008>>,
     <<8017, 8023, 2, 8025>>, <<8032, 8039, 1, 8040>>,
     <<8048, 8049, 1, 8122>>, <<8050, 8053, 1, 8136>>,
     <<8054, 8055, 1, 8154>>, <<8056, 8057, 1, 8184>>,
     <<8058, 8059, 1, 8170>>, <<8060, 8061, 1, 8186>>,
     <<8112, 8113, 1, 8120>>, <<8126, 8126, 1, 921>>,
     <<8144, 8145, 1, 8152>>, <<8160, 8161, 1, 8168>>,
     <<8165, 8165, 1, 8172>>, <<8526, 8526, 1, 8498>>,
     <<8560, 8575, 1, 8544>>, <<8580, 8580, 1, 8579>>,
     <<9424, 9449, 1, 9398>>, <<11312, 11359, 1, 11264>>,
     <<11361, 11361, 1, 11360>>, <<11365, 11365, 1, 570>>,
     <<11366, 11366, 1, 574>>, <<11368, 11372, 2, 11367>>,
     <<11379, 11379, 1, 11378>>, <<11382, 11382, 1, 11381>>,
     <<11393, 11491, 2, 11392>>, <<11500, 11502, 2, 11499>>,
     <<11507, 11507, 1, 11506>>, <<11520, 11557, 1, 4256>>,
     <<11559, 11559, 1, 4295>>, <<11565, 11565, 1, 4301>>,
     <<42561, 42605, 2, 42560>>, <<42625, 42651, 2, 42624>>,
     <<42787, 42799, 2, 42786>>, <<42803, 42863, 2, 42802>>,
     <<42874, 42876, 2, 42873>>, <<42879, 42887, 2, 42878>>,
     <<42892, 42892, 1, 42891>>, <<42897, 42899, 2, 42896>>,
     <<42900, 42900, 1, 42948>>, <<42903, 42921, 2, 42902>>,
     <<42933, 42947, 2, 42932>>, <<42952, 42954, 2, 42951>>,
     <<42961, 42961, 1, 42960>>, <<42967, 42969, 2, 42966>>,
     <<42998, 42998, 1, 42997>>, <<43859, 43859, 1, 42931>>,
     <<43888, 43967, 1, 5024>>, <<65345, 65370, 1, 65313>>,
     <<66600, 66639, 1, 66560>>, <<66776, 66811, 1, 66736>>,
     <<66967, 66977, 1, 66928>>, <<66979, 66993, 1, 66940>>,
     <<66995, 67001, 1, 66956>>, <<67003, 67004, 1, 66964>>,
     <<68800, 68850, 1, 68736>>, <<71872, 71903, 1, 71840>>,
     <<93792, 93823, 1, 93760>>, <<125218, 125251, 1, 125184>>,
     <<411, 411, 1, 42972>>, <<612, 612, 1, 42955>>, <<7306, 7306, 1, 7305>>,
     <<42957, 42959, 2, 42956>>, <<42963, 42965, 2, 42962>>,
     <<42971, 42971, 1, 42970>>, <<68976, 68997, 1, 68944>>,
     <<93883, 93907, 1, 93856>>
  >>
\* the characters whose upper case is two or three characters long, as
\* <<character, its upper case>> (U+00DF sharp s: "SS")
UPPERCASE_TABLE_MULTI ==
  <<
     <<223, <<83, 83>>>>, <<329, <<700, 78>>>>, <<496, <<74, 780>>>>,
     <<912, <<921, 776, 769>>>>, <<944, <<933, 776, 769>>>>,
     <<1415, <<1333, 1362>>>>, <<7830, <<72, 817>>>>,
     <<7831, <<84, 776>>>>, <<7832, <<87, 778>>>>, <<7833, <<89, 778>>>>,
     <<7834, <<65, 702>>>>, <<8016, <<933, 787>>>>,
     <<8018, <<933, 787, 768>>>>, <<8020, <<933, 787, 769>>>>,
     <<8022, <<933, 787, 834>>>>, <<8064, <<7944, 921>>>>,
     <<8065, <<7945, 921>>>>, <<8066, <<7946, 921>>>>,
     <<8067, <<7947, 921>>>>, <<8068, <<7948, 921>>>>,
     <<8069, <<7949, 921>>>>, <<8070, <<7950, 921>>>>,
     <<8071, <<7951, 921>>>>, <<8072, <<7944, 921>>>>,
     <<8073, <<7945, 921>>>>, <<8074, <<7946, 921>>>>,
     <<8075, <<7947, 921>>>>, <<8076, <<7948, 921>>>>,
     <<8077, <<7949, 921>>>>, <<8078, <<7950, 921>>>>,
     <<8079, <<7951, 921>>>>, <<8080, <<7976, 921>>>>,
     <<8081, <<7977, 921>>>>, <<8082, <<7978, 921>>>>,
     <<8083, <<7979, 921>>>>, <<8084, <<7980, 921>>>>,
     <<8085, <<7981, 921>>>>, <<8086, <<7982, 921>>>>,
     <<8087, <<7983, 921>>>>, <<8088, <<7976, 921>>>>,
     <<8089, <<7977, 921>>>>, <<8090, <<7978, 921>>>>,
     <<8091, <<7979, 921>>>>, <<8092, <<7980, 921>>>>,
     <<8093, <<7981, 921>>>>, <<8094, <<7982, 921>>>>,
     <<8095, <<7983, 921>>>>, <<8096, <<8040, 921>>>>,
     <<8097, <<8041, 921>>>>, <<8098, <<8042, 921>>>>,
     <<8099, <<8043, 921>>>>, <<8100, <<8044, 921>>>>,
     <<8101, <<8045, 921>>>>, <<8102, <<8046, 921>>>>,
     <<8103, <<8047, 921>>>>, <<8104, <<8040, 921>>>>,
     <<8105, <<8041, 921>>>>, <<8106, <<8042, 921>>>>,
     <<8107, <<8043, 921>>>>, <<8108, <<8044, 921>>>>,
     <<8109, <<8045, 921>>>>, <<8110, <<8046, 921>>>>,
     <<8111, <<8047, 921>>>>, <<8114, <<8122, 921>>>>,
     <<8115, <<913, 921>>>>, <<8116, <<902, 921>>>>,
     <<8118, <<913, 834>>>>, <<8119, <<913, 834, 921>>>>,
     <<8124, <<913, 921>>>>, <<8130, <<8138, 921>>>>,
     <<8131, <<919, 921>>>>, <<8132, <<905, 921>>>>,
     <<8134, <<919, 834>>>>, <<8135, <<919, 834, 921>>>>,
     <<8140, <<919, 921>>>>, <<8146, <<921, 776, 768>>>>,
     <<8147, <<921, 776, 769>>>>, <<8150, <<921, 834>>>>,
     <<8151, <<921, 776, 834>>>>, <<8162, <<933, 776, 768>>>>,
     <<8163, <<933, 776, 769>>>>, <<8164, <<929, 787>>>>,
     <<8166, <<933, 834>>>>, <<8167, <<933, 776, 834>>>>,
     <<8178, <<8186, 921>>>>, <<8179, <<937, 921>>>>,
     <<8180, <<911, 921>>>>, <<8182, <<937, 834>>>>,
     <<8183, <<937, 834, 921>>>>, <<8188, <<937, 921>>>>,
     <<64256, <<70, 70>>>>, <<64257, <<70, 73>>>>, <<64258, <<70, 76>>>>,
     <<64259, <<70, 70, 73>>>>, <<64260, <<70, 70, 76>>>>,
     <<64261, <<83, 84>>>>, <<64262, <<83, 84>>>>,
     <<64275, <<1348, 1350>>>>, <<64276, <<1348, 1333>>>>,
     <<64277, <<1348, 1339>>>>, <<64278, <<1358, 1350>>>>,
     <<64279, <<1348, 1341>>>>
  >>

\* u8::to_ascii_uppercase
UpperChar(c) == IF c >= 97 /\ c <= 122 THEN c - 32 ELSE c
\* char::to_uppercase: the upper case of a code point, one to three code
\* points
to_upper(cp) ==
    IF cp < 128 THEN <<UpperChar(cp)>>
    ELSE LET M == {k \in 1..Len(UPPERCASE_TABLE_MULTI) :
                      UPPERCASE_TABLE_MULTI[k][1] = cp}
             R == {k \in 1..Len(UPPERCASE_TABLE) :
                      /\ UPPERCASE_TABLE[k][1] <= cp
                      /\ cp <= UPPERCASE_TABLE[k][2]
                      /\ (cp - UPPERCASE_TABLE[k][1]) % UPPERCASE_TABLE[k][3] = 0}
         IN IF M # {} THEN UPPERCASE_TABLE_MULTI[CHOOSE k \in M : TRUE][2]
            ELSE IF R # {}
                 THEN LET r == UPPERCASE_TABLE[CHOOSE k \in R : TRUE]
                      IN <<r[4] + (cp - r[1])>>
            ELSE <<cp>>
\* the UTF-8 text of the upper case of a code point
UpperText(cp) ==
    LET u == to_upper(cp) IN
    encode_utf8(u[1]) \o (IF Len(u) > 1 THEN encode_utf8(u[2]) ELSE <<>>)
                     \o (IF Len(u) > 2 THEN encode_utf8(u[3]) ELSE <<>>)
\* the texts t[lo], .. t[hi] one after the other
RECURSIVE Flat(_, _, _)
Flat(t, lo, hi) ==
    IF lo > hi THEN <<>>
    ELSE IF lo = hi THEN t[lo]
    ELSE Flat(t, lo, (lo + hi) \div 2) \o Flat(t, (lo + hi) \div 2 + 1, hi)
\* the upper case of each character of a text, in order: the text may get
\* longer or shorter
Uppercased(s) ==
    Flat([i \in 1..Len(s) |->
             IF IsCont(s[i]) THEN <<>> ELSE UpperText(CodePoint(s, i))],
         1, Len(s))
\* a faulty to_uppercase that leaves the text as it is
to_uppercase_asis(s) == s
\* str::to_uppercase: ASCII text is folded byte by byte, any other text
\* character by character
to_uppercase(s) ==
    IF \A i \in 1..Len(s) : s[i] < 128
    THEN [i \in 1..Len(s) |-> UpperChar(s[i])]
    ELSE Uppercased(s)

Min(a, b) == IF a < b THEN a ELSE b

\* format!("{id:x}"): lowercase hexadecimal, no padding
HexDigit(d) == IF d < 10 THEN 48 + d ELSE 87 + d
RECURSIVE Hex(_)
Hex(n) == IF n < 16 THEN <<HexDigit(n)>> ELSE Hex(n \div 16) \o <<HexDigit(n % 16)>>

\* str::split("."): the parts between the dots, at least one part; part k
\* runs from just after dot k-1 (or the start) to just before dot k (or the
\* end)
Split(s) ==
    LET n    == Len(s)
        dots == {i \in 1..n : s[i] = 46}
        Dot(k) == IF k = 0 THEN 0
                  ELSE IF k > Cardinality(dots) THEN n + 1
                  ELSE CHOOSE d \in dots :
                           Cardinality({e \in dots : e < d}) = k - 1
    IN [k \in 1..(Cardinality(dots) + 1) |->
           SubSeq(s, Dot(k - 1) + 1, Dot(k) - 1)]

\* str::is_char_boundary: the start, the end, or the first byte of a
\* character
is_char_boundary(s, n) ==
    \/ n = 0
    \/ n = Len(s)
    \/ n < Len(s) /\ ~IsCont(s[n + 1])
\* what a call that panics yields
Panicked == <<>>
\* str::split_at(mid): the two parts, or a panic when mid is not on a
\* character boundary
split_at(s, n) ==
    IF is_char_boundary(s, n)
    THEN <<SubSeq(s, 1, n), SubSeq(s, n + 1, Len(s))>>
    ELSE Panicked

\* slice::chunks(n): consecutive pieces of n elements, the last one shorter
RECURSIVE chunks(_, _)
chunks(s, n) ==
    IF Len(s) = 0 THEN <<>>
    ELSE IF Len(s) <= n THEN <<s>>
    ELSE <<SubSeq(s, 1, n)>> \o chunks(SubSeq(s, n + 1, Len(s)), n)

RECURSIVE Concat(_)
Concat(ss) == IF Len(ss) = 0 THEN <<>> ELSE Head(ss) \o Concat(Tail(ss))

(***************************************************************************)
(* Payload codec: bincode (fixed-width little-endian lengths) and          *)
(* BASE32_NOPAD (RFC 4648 alphabet, upper case, no padding).               *)
(***************************************************************************)
Pow2(n) == CASE n = 0 -> 1 [] n = 1 -> 2 [] n = 2 -> 4 [] n = 3 -> 8
             [] n = 4 -> 16 [] n = 5 -> 32 [] n = 6 -> 64 [] n = 7 -> 128
             [] n = 8 -> 256 [] n = 9 -> 512 [] n = 10 -> 1024 [] n = 11 -> 2048

\* a u64 length, little-endian, for lengths below 2^16
U64LE(n) == <<n % 256, n \div 256, 0, 0, 0, 0, 0, 0>>
FromU64LE(b, at) ==
    IF \E j \in 2..7 : b[at + j] # 0 THEN -1
    ELSE b[at] + 256 * b[at + 1]

\* bincode::serialize(&Message{key, value})
serialize(m) == U64LE(Len(m.key)) \o m.key \o U64LE(Len(m.value)) \o m.value

NoMessage == [ok |-> FALSE, key |-> <<>>, value |-> <<>>]
\* bincode::deserialize::<Message>: two length-prefixed strings; bytes after
\* them are ignored; a string that is not UTF-8 is an error
deserialize(b) ==
    IF Len(b) < 8 THEN NoMessage
    ELSE LET kl == FromU64LE(b, 1) IN
         IF kl < 0 \/ Len(b) < 8 + kl + 8 THEN NoMessage
         ELSE LET k  == SubSeq(b, 9, 8 + kl)
                  vl == FromU64LE(b, 9 + kl) IN
              IF vl < 0 \/ Len(b) < 16 + kl + vl THEN NoMessage
              ELSE LET v == SubSeq(b, 17 + kl, 16 + kl + vl) IN
                   IF IsUtf8(k) /\ IsUtf8(v)
                   THEN [ok |-> TRUE, key |-> k, value |-> v]
                   ELSE NoMessage

\* the RFC 4648 base-32 alphabet: A-Z, 2-7
Symbol(v) == IF v < 26 THEN 65 + v ELSE 24 + v
IsSymbol(c) == (c >= 65 /\ c <= 90) \/ (c >= 50 /\ c <= 55)
SymbolValue(c) == IF c >= 65 THEN c - 65 ELSE c - 24

ByteAt(b, i) == IF i <= Len(b) THEN b[i] ELSE 0
\* BASE32_NOPAD.encode: 5 bits a symbol, the last symbol padded with zero bits
BASE32_encode(b) ==
    LET n == (8 * Len(b) + 4) \div 5 IN
    [j \in 1..n |->
        LET off == 5 * (j - 1)
            q   == off \div 8
            r   == off % 8
            w   == ByteAt(b, q + 1) * 256 + ByteAt(b, q + 2)
        IN Symbol((w \div Pow2(11 - r)) % 32)]

DecodeError == [ok |-> FALSE, bytes |-> <<>>]
DigitAt(t, i) == IF i <= Len(t) THEN SymbolValue(t[i]) ELSE 0
\* BASE32_NOPAD.decode: fails on a symbol outside the alphabet, on a length
\* no encoding has (1, 3 or 6 modulo 8) and on non-zero trailing bits
BASE32_decode(t) ==
    LET n     == Len(t)
        trail == (5 * n) % 8
    IN IF \E i \in 1..n : ~IsSymbol(t[i]) THEN DecodeError
       ELSE IF n % 8 \in {1, 3, 6} THEN DecodeError
       ELSE IF n > 0 /\ SymbolValue(t[n]) % Pow2(trail) # 0 THEN DecodeError
       ELSE [ok |-> TRUE,
             bytes |-> [i \in 1..((5 * n) \div 8) |->
                 LET off == 8 * (i - 1)
                     q   == off \div 5
                     r   == off % 5
                     w   == DigitAt(t, q + 1) * 1024 + DigitAt(t, q + 2) * 32
                            + DigitAt(t, q + 3)
                 IN (w \div Pow2(7 - r)) % 256]]

\* the Upload Encoder's text: BASE32_NOPAD.encode(&bincode::serialize(&message))
encode(m) == BASE32_encode(serialize(m))
\* BASE32_NOPAD.decode(..)? followed by bincode::deserialize(..)?
decode(t) ==
    LET d == BASE32_decode(t) IN
    IF d.ok THEN deserialize(d.bytes) ELSE NoMessage

(***************************************************************************)
(* Inputs of the model.                                                    *)
(***************************************************************************)
Clients == {1, 2}

\* value text of n lower-case letters
Fill(n, o) == [i \in 1..n |-> 97 + ((i + o) % 26)]

\* Message{key: "ab", value: 21 bytes}: 63 symbols encoded, two chunks
M1 == [key |-> <<97, 98>>, value |-> Fill(21, 0)]
\* Message{key: "k", value: 142 bytes}: 255 symbols encoded, five chunks
M2 == [key |-> <<107>>, value |-> Fill(142, 5)]
\* Message{key: "K", value: 150 bytes}: 268 symbols encoded, five chunks
M3 == [key |-> <<75>>, value |-> Fill(150, 11)]
\* Message{key: "\u{e9}\u{df}" (e acute, sharp s), value: "v"}: 32 symbols
\* encoded, one chunk; the upper case of the key is "\u{c9}SS"
M4 == [key |-> <<195, 169, 195, 159>>, value |-> <<118>>]
Messages == {M1, M2, M3, M4}

\* the uploads a client may run: a message and the transaction id drawn for
\* it (0x7, 0xab, 0x1c; "ab" is also the key of M1)
Uploads == {[msg |-> M1, id |-> 7], [msg |-> M1, id |-> 171],
            [msg |-> M2, id |-> 171], [msg |-> M3, id |-> 28],
            [msg |-> M4, id |-> 28]}

\* the keys a client may download: "ab", "k", "\u{e9}\u{df}"
ReadKeys == {<<97, 98>>, <<107>>, <<195, 169, 195, 159>>}

Question(t, n) == [qtype |-> t, qname |-> n]
\* five chunk-write questions that put 254 letters and a two-byte character
\* under "K": four labels of 63 "x" and the label "xx\u{e9}"; byte 255 of
\* the text is inside its last character
Wide ==
    << Question("AAAA", [i \in 1..63 |-> 120] \o <<46, 107>>),
       Question("AAAA", [i \in 1..63 |-> 120] \o <<46, 107>>),
       Question("AAAA", [i \in 1..63 |-> 120] \o <<46, 107>>),
       Question("AAAA", [i \in 1..63 |-> 120] \o <<46, 107>>),
       Question("AAAA", <<120, 120, 195, 169, 46, 107>>) >>
\* the UDP source port of a client.rs process (bound to 0.0.0.0:0, the
\* system picks a port of the ephemeral range) and of a peer of that kind
CLIENT_PORT == 49152
\* what a peer puts on the wire: its source port, and bytes that are a DNS
\* packet, written as the list of its questions, or bytes that are none
From(port, qs) == [peer |-> port, packet |-> TRUE, qs |-> qs]
\* a datagram shorter than the 12 bytes of a DNS header
Runt == [peer |-> CLIENT_PORT, packet |-> FALSE, qs |-> <<>>]
\* datagrams of a peer that is not the client program: a chunk-write query
\* whose name "k" has no dot, a query of type MX for "k", and Wide
RawDatagrams ==
    {From(CLIENT_PORT, << Question("AAAA", <<107>>) >>),
     From(CLIENT_PORT, << Question("MX", <<107>>) >>),
     From(CLIENT_PORT, Wide)}

(***************************************************************************)
(* The store: Database = HashMap<String, String> behind one Mutex.  Each   *)
(* operator below is one hold of the lock.                                 *)
(***************************************************************************)
\* a faulty remove that clears the map
Remove_all(d, key) == [x \in {} |-> <<>>]
Remove(d, key) == [x \in (DOMAIN d) \ {key} |-> d[x]]
\* a faulty insert that keeps nothing but the new entry
Insert_only(d, key, value) == [x \in {key} |-> value]
Insert(d, key, value) ==
    [x \in (DOMAIN d) \cup {key} |-> IF x = key THEN value ELSE d[x]]

None == [some |-> FALSE, v |-> <<>>]
Some(v) == [some |-> TRUE, v |-> v]
\* a faulty unwrap_or that yields the empty text for None
unwrap_or_empty(o, dflt) == IF o.some THEN o.v ELSE <<>>
unwrap_or(o, dflt) == IF o.some THEN o.v ELSE dflt
\* HashMap::get: the entry under the key, if any
Lookup(d, key) == IF key \in DOMAIN d THEN Some(d[key]) ELSE None

\* a faulty get_value that leaves the entry in the store
get_value_keep(d, key) == [opt |-> Lookup(d, key), db |-> d]

\* server.rs get_value: db.remove(key), the removed value and the store left
get_value(d, key) ==
    IF key \in DOMAIN d THEN [opt |-> Some(d[key]), db |-> Remove(d, key)]
    ELSE [opt |-> None, db |-> d]

\* a faulty set_value that appends to an entry the key already has
set_value_merge(d, key, value) ==
    Insert(d, key, (IF key \in DOMAIN d THEN d[key] ELSE <<>>) \o value)

\* server.rs set_value: db.insert(key, value)
set_value(d, key, value) == Insert(d, key, value)

\* a faulty append_value that forgets what the key held
append_value_overwrite(d, key, value) == Insert(d, key, value)

\* a faulty append_value that puts the new text in front
append_value_prepend(d, key, value) ==
    Insert(d, key, value \o (IF key \in DOMAIN d THEN d[key] ELSE <<>>))

\* a faulty append_value that installs the message as soon as the text
\* accumulated under the key decodes
append_value_install(d, key, value) ==
    LET text == (IF key \in DOMAIN d THEN d[key] ELSE <<>>) \o value
        m    == decode(text)
        nd   == Insert(d, key, text)
    IN IF m.ok THEN Insert(nd, to_uppercase(m.key), text) ELSE nd

\* server.rs append_value: remove(key).unwrap_or_default(), push_str, insert
append_value(d, key, value) ==
    LET current_value == unwrap_or(get_value(d, key).opt, <<>>)
    IN Insert(Remove(d, key), key, current_value \o value)

(***************************************************************************)
(* State.                                                                  *)
(***************************************************************************)
VARIABLES
    db,      \* DATABASE
    client,  \* client[c]: the client process c and its local variables
    net,     \* net[c]: the query datagram of c on its way to the server
    task,    \* task[c]: the server task spawned for c's datagram
    reply,   \* reply[c]: the reply datagram on its way to c
    nops,    \* commands started so far
    limit    \* commands that may be started in all

vars == <<db, client, net, task, reply, nops, limit>>

\* a datagram on its way: the source address it carries (its port) and its
\* bytes, as From writes them
NoDatagram == [live |-> FALSE, peer |-> 0, packet |-> FALSE, qs |-> <<>>]
Sent(r) == [live |-> TRUE, peer |-> r.peer, packet |-> r.packet, qs |-> r.qs]
\* client.rs: the query packet of a client process
Datagram(qs) == Sent(From(CLIENT_PORT, qs))
NoReply == [live |-> FALSE, answers |-> <<>>]

\* the local variables of a client process.  alone, fresh and snap are kept
\* for a command that runs with no other client beside it: alone says so,
\* fresh that the store had no entry under the transaction id when the
\* command started, snap is the store entry under the uppercased key then
IdleClient ==
    [pc |-> "idle", kind |-> "none", key |-> <<>>, value |-> <<>>, id |-> 0,
     encoded |-> <<>>, chunks |-> <<>>, idx |-> 0, incoming |-> <<>>,
     message |-> NoMessage, replied |-> FALSE, port |-> CLIENT_PORT,
     alone |-> FALSE, fresh |-> FALSE, snap |-> None]

NoTask ==
    [pc |-> "none", peer |-> 0, packet |-> FALSE, qs |-> <<>>, i |-> 0,
     answers |-> <<>>, name |-> <<>>, value |-> <<>>, txt |-> <<>>,
     remainder |-> <<>>]

\* RData of the canned answers: A 41.41.41.41, AAAA ::2929:2929
CANNED == <<41, 41, 41, 41>>
Answer(t, data) == [rtype |-> t, data |-> data]

\* main: DATABASE.get_or_init(|| Mutex::new(HashMap::new()))
Start ==
    /\ db = <<>>
    /\ client = [c \in Clients |-> IdleClient]
    /\ net = [c \in Clients |-> NoDatagram]
    /\ task = [c \in Clients |-> NoTask]
    /\ reply = [c \in Clients |-> NoReply]
    /\ nops = 0

Init == Start /\ limit = MaxOps
InitWide == Start /\ limit = MaxOps + 1

\* the process has exited: what it recorded at its start goes with it
Exit(cl, pc) ==
    [cl EXCEPT !.pc = pc, !.alone = FALSE, !.fresh = FALSE, !.snap = None,
        !.chunks = <<>>, !.idx = 0]

Ended(c) == client[c].pc \in {"idle", "done", "failed"}
Quiet(c) == \A d \in Clients \ {c} : Ended(d)
\* what a command records when it starts
Begin(c, kind, key) ==
    [IdleClient EXCEPT !.kind = kind, !.key = key, !.alone = Quiet(c),
        !.snap = IF Quiet(c) THEN Lookup(db, to_uppercase(key)) ELSE None]
\* client c starts as cl; the commands running beside it are alone no more
Launch(c, cl) ==
    client' = [d \in Clients |->
        IF d = c THEN cl
        ELSE [client[d] EXCEPT !.alone = FALSE, !.fresh = FALSE, !.snap = None]]

(***************************************************************************)
(* Client (src/bin/client.rs).  A client step runs from one blocking       *)
(* recv_from to the next.                                                  *)
(***************************************************************************)
\* a command may start when the process before it has ended; client 2 is
\* started after client 1 (the two are interchangeable)
CanStart(c) ==
    /\ nops < limit
    /\ Ended(c)
    /\ ~net[c].live /\ task[c].pc = "none" /\ ~reply[c].live
    /\ c = 2 => client[1].kind # "none"

\* client.rs set_value: let domain = format!(".{id:x}")
Suffix(id) == DOT \o Hex(id)

\* a faulty split that leaves the '.' of the suffix out of the count
Chunked_nodot(encoded, id) == chunks(encoded, MAX_FQDN - Len(Hex(id)))

\* client.rs set_value: encoded.as_bytes().chunks(MAX_FQDN - domain.len())
Chunked(encoded, id) == chunks(encoded, MAX_FQDN - Len(Suffix(id)))

\* client.rs set_value, up to the first recv_from
StartSet(c, u) ==
    /\ CanStart(c)
    /\ LET domain  == Suffix(u.id)
           encoded == encode(u.msg)
           cs      == Chunked(encoded, u.id)
       IN /\ Launch(c,
                 [Begin(c, "set", u.msg.key) EXCEPT !.pc = "wait_chunk",
                     !.value = u.msg.value, !.id = u.id, !.encoded = encoded,
                     !.chunks = cs, !.idx = 1,
                     !.fresh = Quiet(c) /\ to_uppercase(Hex(u.id)) \notin DOMAIN db])
          /\ net' = [net EXCEPT ![c] =
                 Datagram(<< Question("AAAA", cs[1] \o domain) >>)]
    /\ nops' = nops + 1
    /\ UNCHANGED <<db, task, reply, limit>>

\* a faulty client that sends its next query without waiting for the reply
RecvChunkReply_eager(c) ==
    /\ client[c].pc = "wait_chunk"
    /\ ~net[c].live
    /\ reply' = [reply EXCEPT ![c] = NoReply]
    /\ LET cl == client[c] IN
       IF cl.idx < Len(cl.chunks)
       THEN /\ client' = [client EXCEPT ![c].idx = cl.idx + 1]
            /\ net' = [net EXCEPT ![c] = Datagram(
                   << Question("AAAA", cl.chunks[cl.idx + 1] \o DOT \o Hex(cl.id)) >>)]
       ELSE /\ client' = [client EXCEPT ![c].pc = "wait_commit"]
            /\ net' = [net EXCEPT ![c] = Datagram(<< Question("A", Hex(cl.id)) >>)]
    /\ UNCHANGED <<db, task, nops, limit>>

\* client.rs set_value: a reply to a chunk-write query arrives; the next
\* chunk is sent, or after the last chunk the commit query
RecvChunkReply(c) ==
    /\ client[c].pc = "wait_chunk"
    /\ reply[c].live
    /\ reply' = [reply EXCEPT ![c] = NoReply]
    /\ LET cl == client[c] IN
       IF cl.idx < Len(cl.chunks)
       THEN /\ client' = [client EXCEPT ![c].idx = cl.idx + 1]
            /\ net' = [net EXCEPT ![c] = Datagram(
                   << Question("AAAA", cl.chunks[cl.idx + 1] \o DOT \o Hex(cl.id)) >>)]
       ELSE /\ client' = [client EXCEPT ![c].pc = "wait_commit"]
            /\ net' = [net EXCEPT ![c] = Datagram(<< Question("A", Hex(cl.id)) >>)]
    /\ UNCHANGED <<db, task, nops, limit>>

\* client.rs set_value: a reply to the commit query arrives; "Set the key"
RecvCommitReply(c) ==
    /\ client[c].pc = "wait_commit"
    /\ reply[c].live
    /\ reply' = [reply EXCEPT ![c] = NoReply]
    /\ client' = [client EXCEPT ![c] = Exit([client[c] EXCEPT !.replied = TRUE], "done")]
    /\ UNCHANGED <<db, net, task, nops, limit>>

\* client.rs get_value, up to the first recv_from
StartGet(c, k) ==
    /\ CanStart(c)
    /\ Launch(c, [Begin(c, "get", k) EXCEPT !.pc = "wait_txt"])
    /\ net' = [net EXCEPT ![c] = Datagram(<< Question("TXT", k) >>)]
    /\ nops' = nops + 1
    /\ UNCHANGED <<db, task, reply, limit>>

\* TXT::attributes of one character string: the text before its first '='
BeforeEq(s) ==
    LET eqs == {i \in 1..Len(s) : s[i] = 61} IN
    IF eqs = {} THEN s
    ELSE SubSeq(s, 1, (CHOOSE i \in eqs : \A j \in eqs : i <= j) - 1)
\* client.rs parse_txt_response: the text of answers[0] when it is a TXT record
parse_txt_response(r) ==
    IF r.answers[1].rtype = "TXT" THEN BeforeEq(r.answers[1].data) ELSE <<>>

\* client.rs get_value: one turn of the loop after recv_from, and after the
\* loop the decoding of the accumulator
RecvTxtReply(c) ==
    /\ client[c].pc = "wait_txt"
    /\ reply[c].live
    /\ reply' = [reply EXCEPT ![c] = NoReply]
    /\ LET data     == parse_txt_response(reply[c])
           incoming == client[c].incoming \o data
       IN IF Len(data) < MAX_TXT
          THEN LET m == decode(incoming) IN
               /\ client' = [client EXCEPT ![c] =
                      Exit([client[c] EXCEPT !.incoming = incoming,
                               !.message = m, !.replied = TRUE],
                           IF m.ok THEN "done" ELSE "failed")]
               /\ net' = net
          ELSE /\ client' = [client EXCEPT ![c].incoming = incoming]
               /\ net' = [net EXCEPT ![c] =
                      Datagram(<< Question("TXT", client[c].key) >>)]
    /\ UNCHANGED <<db, task, nops, limit>>

\* a peer sends one datagram of its own making
StartRaw(c, r) ==
    /\ CanStart(c)
    /\ Launch(c, [Begin(c, "raw", IF r.qs = <<>> THEN <<>> ELSE r.qs[1].qname)
                      EXCEPT !.pc = "raw", !.chunks = r.qs, !.port = r.peer])
    /\ net' = [net EXCEPT ![c] = Sent(r)]
    /\ nops' = nops + 1
    /\ UNCHANGED <<db, task, reply, limit>>

\* the peer is done once the server is done with its datagram
RawDone(c) ==
    /\ client[c].pc = "raw"
    /\ ~net[c].live /\ task[c].pc = "none"
    /\ client' = [client EXCEPT ![c] =
           Exit([client[c] EXCEPT !.replied = reply[c].live], "done")]
    /\ reply' = [reply EXCEPT ![c] = NoReply]
    /\ UNCHANGED <<db, net, task, nops, limit>>

(***************************************************************************)
(* Server (src/bin/server.rs).                                             *)
(***************************************************************************)
\* main: recv_from, then tokio::spawn of handle_dns_query(socket, data,
\* peer) for the datagram (every datagram of the model fits the 2048 bytes
\* of buf)
ServerRecv(c) ==
    /\ net[c].live
    /\ task[c].pc = "none"
    /\ task' = [task EXCEPT ![c] = [NoTask EXCEPT !.pc = "parse",
           !.peer = net[c].peer, !.packet = net[c].packet, !.qs = net[c].qs,
           !.i = 1]]
    /\ net' = [net EXCEPT ![c] = NoDatagram]
    /\ UNCHANGED <<db, client, reply, nops, limit>>

\* simple_dns Packet::parse(&data): the questions of the packet, or an error
\* for bytes that are no DNS packet
Packet_parse(data) == IF data.packet THEN Some(data.qs) ELSE None

AtQuestion(c, types) ==
    /\ task[c].pc = "loop"
    /\ task[c].i <= Len(task[c].qs)
    /\ task[c].qs[task[c].i].qtype \in types

\* a faulty end of a task on error that sends what it has
Fail_replying(c) ==
    /\ task' = [task EXCEPT ![c] = NoTask]
    /\ reply' = [reply EXCEPT ![c] = [live |-> TRUE, answers |-> task[c].answers]]

\* the task ends with an error (or panics): logged, no reply
Fail(c) == task' = [task EXCEPT ![c] = NoTask] /\ reply' = reply
\* the task of c goes on at question i with the answers it has: into the
\* loop for a question of the packet, past the loop after the last one
Resume(c, i, answers, last) ==
    [NoTask EXCEPT !.pc = IF i <= last THEN "loop" ELSE "send",
        !.peer = task[c].peer, !.packet = task[c].packet, !.qs = task[c].qs,
        !.i = i, !.answers = answers]

\* handle_dns_query: Packet::parse(&data)? and packet.clone().into_reply();
\* bytes that do not parse end the task, a packet with no question goes
\* straight past the loop
PacketParse(c) ==
    /\ task[c].pc = "parse"
    /\ LET packet == Packet_parse(task[c]) IN
       IF ~packet.some THEN Fail(c)
       ELSE /\ task' = [task EXCEPT ![c] = Resume(c, 1, <<>>, Len(packet.v))]
            /\ reply' = reply
    /\ UNCHANGED <<db, client, net, nops, limit>>

\* a faulty push that leaves the loop after the first answer
Push_early(c, a) ==
    /\ task' = [task EXCEPT ![c] =
           Resume(c, task[c].i + 1, Append(task[c].answers, a), task[c].i)]
    /\ reply' = reply

\* response.answers.push(answer), then the next question or, after the last
\* one, the end of the loop
Push(c, a) ==
    /\ task' = [task EXCEPT ![c] =
           Resume(c, task[c].i + 1, Append(task[c].answers, a), Len(task[c].qs))]
    /\ reply' = reply

\* parse_a_query, first hold of the lock: get_value(&key).unwrap(), then
\* the decoding
AQueryGet(c) ==
    /\ AtQuestion(c, {"A"})
    /\ LET key == to_uppercase(task[c].qs[task[c].i].qname)
           got == get_value(db, key)
       IN /\ db' = got.db
          /\ IF ~got.opt.some THEN Fail(c)
             ELSE LET msg == decode(got.opt.v) IN
                  IF ~msg.ok THEN Fail(c)
                  ELSE /\ task' = [task EXCEPT ![c].pc = "a_set",
                              ![c].name = to_uppercase(msg.key),
                              ![c].value = got.opt.v]
                       /\ reply' = reply
    /\ UNCHANGED <<client, net, nops, limit>>

\* parse_a_query, second hold of the lock: set_value(msg.key.to_uppercase(), value)
AQuerySet(c) ==
    /\ task[c].pc = "a_set"
    /\ db' = set_value(db, task[c].name, task[c].value)
    /\ Push(c, Answer("A", CANNED))
    /\ UNCHANGED <<client, net, nops, limit>>

\* parse_aaaa_query
AAAAQuery(c) ==
    /\ AtQuestion(c, {"AAAA"})
    /\ LET name  == to_uppercase(task[c].qs[task[c].i].qname)
           parts == Split(name)
       IN IF Len(parts) < 2
          THEN /\ Fail(c)
               /\ db' = db
          ELSE /\ db' = append_value(db, parts[2], parts[1])
               /\ Push(c, Answer("AAAA", CANNED))
    /\ UNCHANGED <<client, net, nops, limit>>

\* parse_txt_query, first hold of the lock: get_value(&name), the slice;
\* split_at panics, and the task ends there, when byte 255 of the text is
\* inside a character
TxtQueryGet(c) ==
    /\ AtQuestion(c, {"TXT"})
    /\ LET name  == to_uppercase(task[c].qs[task[c].i].qname)
           got   == get_value(db, name)
           value == unwrap_or(got.opt, DEFAULT_MARKER)
           len   == Min(Len(value), MAX_TXT)
           sp    == split_at(value, len)
       IN /\ db' = got.db
          /\ IF sp = Panicked THEN Fail(c)
             ELSE IF sp[2] # <<>>
             THEN /\ task' = [task EXCEPT ![c].pc = "txt_put", ![c].name = name,
                         ![c].value = value, ![c].txt = sp[1],
                         ![c].remainder = sp[2]]
                  /\ reply' = reply
             ELSE Push(c, Answer("TXT", sp[1]))
    /\ UNCHANGED <<client, net, nops, limit>>

\* parse_txt_query, second hold of the lock: set_value(name, remainder)
TxtQueryPut(c) ==
    /\ task[c].pc = "txt_put"
    /\ db' = set_value(db, task[c].name, task[c].remainder)
    /\ Push(c, Answer("TXT", task[c].txt))
    /\ UNCHANGED <<client, net, nops, limit>>

\* handle_dns_query: a question of another type, Err("invalid type")
OtherQuery(c) ==
    /\ task[c].pc = "loop"
    /\ task[c].i <= Len(task[c].qs)
    /\ task[c].qs[task[c].i].qtype \notin {"A", "AAAA", "TXT"}
    /\ Fail(c)
    /\ UNCHANGED <<db, client, net, nops, limit>>

\* the length of a name on the wire: a length byte and the bytes of each
\* label, and the byte of the root
WireName(n) == IF n = <<>> THEN 1 ELSE Len(n) + 2
\* the length of the RDATA of an answer: an A address, an AAAA address, one
\* character string with its length byte
WireRData(a) ==
    IF a.rtype = "A" THEN 4
    ELSE IF a.rtype = "AAAA" THEN 16
    ELSE Len(a.data) + 1
RECURSIVE WireSum(_, _, _)
\* questions (name, type, class) and answers (the name of the question,
\* type, class, ttl, rdlength, RDATA) 1..n on the wire
WireSum(qs, answers, n) ==
    IF n = 0 THEN 0
    ELSE WireSum(qs, answers, n - 1)
         + (IF n <= Len(qs) THEN WireName(qs[n].qname) + 4 ELSE 0)
         + (IF n <= Len(answers)
            THEN WireName(qs[n].qname) + 10 + WireRData(answers[n]) ELSE 0)
\* response.build_bytes_vec(): the length of the reply packet, written
\* without name compression after its 12-byte header; no reply the handlers
\* have built fails to be written
build_bytes_vec(qs, answers) == Some(12 + WireSum(qs, answers, Len(qs)))

\* the most bytes one UDP datagram carries over IPv4
MAX_UDP_PAYLOAD == 65507
\* socket.send_to(&rd, peer): an error for a peer address of port 0 and for
\* more bytes than a datagram carries, else the reply is on its way
send_to(len, peer) == peer # 0 /\ len <= MAX_UDP_PAYLOAD

\* handle_dns_query after the loop: response.build_bytes_vec()? and
\* socket.send_to(&rd, peer).await?; either error ends the task with no
\* reply, and what the questions stored stays
ServerSend(c) ==
    /\ task[c].pc = "send"
    /\ LET rd == build_bytes_vec(task[c].qs, task[c].answers) IN
       IF rd.some /\ send_to(rd.v, task[c].peer)
       THEN /\ task' = [task EXCEPT ![c] = NoTask]
            /\ reply' = [reply EXCEPT ![c] =
                   [live |-> TRUE, answers |-> task[c].answers]]
       ELSE Fail(c)
    /\ UNCHANGED <<db, client, net, nops, limit>>

Next ==
    \E c \in Clients :
        \/ \E u \in Uploads : StartSet(c, u)
        \/ RecvChunkReply(c)
        \/ RecvCommitReply(c)
        \/ \E k \in ReadKeys : StartGet(c, k)
        \/ RecvTxtReply(c)
        \/ \E r \in RawDatagrams : StartRaw(c, r)
        \/ RawDone(c)
        \/ ServerRecv(c)
        \/ PacketParse(c)
        \/ AQueryGet(c)
        \/ AQuerySet(c)
        \/ AAAAQuery(c)
        \/ TxtQueryGet(c)
        \/ TxtQueryPut(c)
        \/ OtherQuery(c)
        \/ ServerSend(c)

Spec == Init /\ [][Next]_vars
SpecWide == InitWide /\ [][Next]_vars

(***************************************************************************)
(* Progress: the runtime runs every spawned task to its end, the main loop *)
(* takes every datagram delivered, and a client blocked in recv_from       *)
(* returns when its reply is delivered.                                    *)
(***************************************************************************)
\* the steps of c's datagram, task and client whose guards are plain tests
Delivered(c) ==
    \/ ServerRecv(c) \/ PacketParse(c)
    \/ AQuerySet(c) \/ TxtQueryGet(c) \/ TxtQueryPut(c) \/ OtherQuery(c)
    \/ ServerSend(c)
    \/ RecvChunkReply(c) \/ RecvCommitReply(c)
    \/ RawDone(c)

\* weak fairness of an action A whose enabling condition is the state
\* predicate G, written out: WF_vars(A) is []<>(~ENABLED <<A>>_vars) \/
\* []<><<A>>_vars.  The guards of AQueryGet and AAAAQuery are AtQuestion
\* (every branch of the two handlers is a step), the guard of RecvTxtReply
\* is a reply waiting for the blocked download.
FairAQueryGet(c) == []<>(~AtQuestion(c, {"A"})) \/ []<><<AQueryGet(c)>>_vars
FairAAAAQuery(c) == []<>(~AtQuestion(c, {"AAAA"})) \/ []<><<AAAAQuery(c)>>_vars
FairRecvTxtReply(c) ==
    []<>(~(client[c].pc = "wait_txt" /\ reply[c].live)) \/ []<><<RecvTxtReply(c)>>_vars

SpecLive ==
    /\ Init /\ [][Next]_vars
    /\ \A c \in Clients :
          /\ WF_vars(Delivered(c))
          /\ FairAQueryGet(c) /\ FairAAAAQuery(c) /\ FairRecvTxtReply(c)

(***************************************************************************)
(* The same program with peers that send datagrams of their own making:    *)
(* a commit query for "ab" (a transaction id, 0xab, and the key of M1), a  *)
(* chunk-write query that puts the text "AAAA" under "K", datagrams of two *)
(* questions of which the first, the second or none fails, a chunk-write   *)
(* of sharp s under e acute followed by a read of E acute, and Wide; the   *)
(* datagram of two questions that do not fail sent from port 0 as well, a  *)
(* packet with no question, and bytes that are no packet.                  *)
(***************************************************************************)
PeerDatagrams ==
    {From(CLIENT_PORT, << Question("A", <<97, 98>>) >>),
     From(CLIENT_PORT, << Question("AAAA", <<97, 97, 97, 97, 46, 107>>) >>),
     From(CLIENT_PORT, << Question("AAAA", <<109, 122, 46, 55>>),
                          Question("MX", <<107>>) >>),
     From(CLIENT_PORT, << Question("AAAA", <<109, 122, 46, 55>>),
                          Question("TXT", <<97, 98>>) >>),
     From(0, << Question("AAAA", <<109, 122, 46, 55>>),
                Question("TXT", <<97, 98>>) >>),
     From(CLIENT_PORT, << Question("MX", <<107>>),
                          Question("AAAA", <<109, 122, 46, 55>>) >>),
     From(CLIENT_PORT, << Question("AAAA", <<195, 159, 46, 195, 169>>),
                          Question("TXT", <<195, 137>>) >>),
     From(CLIENT_PORT, Wide),
     From(CLIENT_PORT, <<>>),
     Runt}

NextPeers ==
    \E c \in Clients :
        \/ \E u \in Uploads : StartSet(c, u)
        \/ RecvChunkReply(c)
        \/ RecvCommitReply(c)
        \/ \E k \in ReadKeys : StartGet(c, k)
        \/ RecvTxtReply(c)
        \/ \E r \in PeerDatagrams : StartRaw(c, r)
        \/ RawDone(c)
        \/ ServerRecv(c)
        \/ PacketParse(c)
        \/ AQueryGet(c)
        \/ AQuerySet(c)
        \/ AAAAQuery(c)
        \/ TxtQueryGet(c)
        \/ TxtQueryPut(c)
        \/ OtherQuery(c)
        \/ ServerSend(c)

SpecPeers == Init /\ [][NextPeers]_vars

(***************************************************************************)
(* The split of client.rs set_value alone, over transaction ids of one to  *)
(* four hexadecimal digits and payloads of every length up to MaxPayload.  *)
(***************************************************************************)
MaxPayload == 125
\* the shortest encoded payload: Message{key: "", value: ""}, 26 symbols
MinPayload == Len(encode([key |-> <<>>, value |-> <<>>]))
\* a text of n symbols of the base32 alphabet
Payload(n) == [i \in 1..n |-> Symbol((7 * i) % 32)]
\* ids of the u16 range: the ends of each hexadecimal length
TxnIds == {0, 15, 16, 255, 256, 4095, 4096, 65535}

InitChunks ==
    /\ Start
    /\ limit = 0

\* client 1 draws an id and splits a payload
SplitPayload(id, n) ==
    /\ client[1].pc = "idle"
    /\ client' = [client EXCEPT ![1] =
           [IdleClient EXCEPT !.pc = "split", !.kind = "set", !.id = id,
               !.encoded = Payload(n), !.chunks = Chunked(Payload(n), id)]]
    /\ UNCHANGED <<db, net, task, reply, nops, limit>>

NextChunks ==
    \E id \in TxnIds : \E n \in MinPayload..MaxPayload : SplitPayload(id, n)

SpecChunks == InitChunks /\ [][NextChunks]_vars

TypeOK ==
    /\ nops \in 0..limit
    /\ \A c \in Clients :
        /\ client[c].pc \in {"idle", "split", "wait_chunk", "wait_commit", "wait_txt", "raw", "done", "failed"}
        /\ task[c].pc \in {"none", "parse", "loop", "a_set", "txt_put", "send"}

(***************************************************************************)
(* Properties.                                                             *)
(***************************************************************************)
\* the store key of an upload's transaction id and of its message key
TxnKey(c) == to_uppercase(Hex(client[c].id))
MsgKey(c) == to_uppercase(client[c].key)
\* the server is done with the datagram client c sent last
ServerDone(c) == ~net[c].live /\ task[c].pc = "none"
IsPrefix(p, s) == Len(p) <= Len(s) /\ p = SubSeq(s, 1, Len(p))

\* an upload that ran with no other client beside it, under a transaction id
\* that had no store entry, and whose commit query the server is done with
C1_Case(c) ==
    /\ client[c].kind = "set" /\ client[c].pc = "wait_commit"
    /\ client[c].alone /\ client[c].fresh
    /\ ServerDone(c)

\* C1 as stated: after a client upload of Message{key, value} under a fresh
\* transaction id, with no loss and no other client, the store entry under
\* uppercase(key) equals the message's value text.
C1_StoreHoldsValue ==
    \A c \in Clients : C1_Case(c) =>
        /\ MsgKey(c) \in DOMAIN db
        /\ db[MsgKey(c)] = client[c].value

\* C1 amended: after such an upload the commit is answered and the store
\* entry under uppercase(key) equals the encoded text of the message (the
\* chunks c1..cn concatenated), which decodes to Message{key, value}.
C1_Reassembly ==
    \A c \in Clients : C1_Case(c) =>
        /\ reply[c].live
        /\ MsgKey(c) \in DOMAIN db
        /\ db[MsgKey(c)] = Concat(client[c].chunks)
        /\ db[MsgKey(c)] = client[c].encoded
        /\ decode(db[MsgKey(c)]) =
               [ok |-> TRUE, key |-> client[c].key, value |-> client[c].value]

C1_Witness ==
    \E c \in Clients :
        /\ C1_Case(c) /\ reply[c].live
        /\ Len(client[c].chunks) > 1
        /\ MsgKey(c) \in DOMAIN db /\ db[MsgKey(c)] = client[c].encoded

\* a download that runs with no other client beside it, of a key that had a
\* store entry when it started, with a reply to its latest read on the way
C2_Case(c) ==
    /\ client[c].kind = "get" /\ client[c].pc = "wait_txt"
    /\ client[c].alone /\ client[c].snap.some
    /\ reply[c].live

\* C2 as stated: the slices returned by successive TXT reads of a stored
\* key, up to and including the first slice shorter than 255 bytes,
\* concatenate to exactly the stored text, for every stored length; for a
\* stored length that is a non-zero multiple of 255 the terminating extra
\* read returns an empty slice.
C2_Pagination ==
    \A c \in Clients : C2_Case(c) =>
        LET data   == parse_txt_response(reply[c])
            all    == client[c].incoming \o data
            stored == client[c].snap.v
        IN /\ Len(data) <= MAX_TXT
           /\ Len(data) = MAX_TXT => IsPrefix(all, stored)
           /\ Len(data) < MAX_TXT => all = stored
           /\ (Len(data) < MAX_TXT /\ Len(stored) % MAX_TXT = 0) => data = <<>>

\* a download of client c that follows the complete upload of client d, of
\* the same key, the two being the only commands run; the reply to its last
\* read is on the way
C3_Case(c, d) ==
    /\ c # d /\ nops = 2
    /\ client[d].kind = "set" /\ client[d].pc = "done"
    /\ client[c].kind = "get" /\ client[c].pc = "wait_txt" /\ client[c].alone
    /\ client[c].key = client[d].key
    /\ reply[c].live
    /\ Len(parse_txt_response(reply[c])) < MAX_TXT

\* C3 as stated: for every Message{key, value}, a complete upload followed by
\* a complete download of the same key leaves the Download Collector's
\* accumulator equal to the encoded text the Upload Encoder produced, and
\* decoding it reconstructs Message{key, value}.
C3_RoundTrip ==
    \A c, d \in Clients : C3_Case(c, d) =>
        LET all == client[c].incoming \o parse_txt_response(reply[c])
        IN /\ all = client[d].encoded
           /\ decode(all) =
                  [ok |-> TRUE, key |-> client[d].key, value |-> client[d].value]

\* the answers the task of c has pushed so far, or has sent in its reply
Pushed(c) == IF task[c].pc = "none" THEN reply[c].answers ELSE task[c].answers
Last(s) == s[Len(s)]
\* the task of c takes a step
Runs(c) == task'[c] # task[c] /\ task[c].pc # "none"
\* the task of c takes a step of the handler of a question
Steps(c) == Runs(c) /\ task[c].pc \in {"loop", "a_set", "txt_put"}
QName(c) == to_uppercase(task[c].qs[task[c].i].qname)

\* every TXT answer a task holds or has sent is at most 255 bytes long
C4_SliceBound ==
    \A c \in Clients : \A a \in 1..Len(Pushed(c)) :
        Pushed(c)[a].rtype = "TXT" => Len(Pushed(c)[a].data) <= MAX_TXT

\* a TXT read of a present key: the reply carries the front of the entry;
\* with nothing left the entry is removed, otherwise the read puts back
\* exactly the unsent remainder, which is shorter than the entry was
C4_ReadStep ==
    \A c \in Clients :
        /\ (AtQuestion(c, {"TXT"}) /\ Steps(c) /\ QName(c) \in DOMAIN db) =>
              LET entry == db[QName(c)] IN
              IF Len(entry) <= MAX_TXT
              THEN /\ QName(c) \notin DOMAIN db'
                   /\ task'[c].pc # "txt_put"
                   /\ Last(Pushed(c)') = Answer("TXT", entry)
              ELSE /\ task'[c].pc = "txt_put"
                   /\ task'[c].name = QName(c)
                   /\ task'[c].txt = SubSeq(entry, 1, MAX_TXT)
                   /\ task'[c].txt \o task'[c].remainder = entry
                   /\ task'[c].remainder # <<>>
        /\ (task[c].pc = "txt_put" /\ Steps(c)) =>
              /\ task[c].name \in DOMAIN db'
              /\ db'[task[c].name] = task[c].remainder
              /\ Len(db'[task[c].name]) < Len(task[c].value)
              /\ Last(Pushed(c)') = Answer("TXT", task[c].txt)

\* C4 as stated: every TXT reply carries a slice of at most 255 bytes taken from the
\* front of the entry; each TXT read of a present key replaces its entry by
\* exactly the unsent remainder, so that the entry shrinks, and the read that
\* leaves no remainder removes the entry from the store.
C4_Slices == [](C4_SliceBound) /\ [][C4_ReadStep]_vars

\* set_value of the commit query of c's upload has not run: the upload is
\* at its chunks, or its commit query is on its way, being handled up to
\* the install, or has ended with an error before it (a task past the loop
\* and a reply to the commit query come after the install)
PreInstall(c) ==
    \/ client[c].pc = "wait_chunk"
    \/ client[c].pc = "wait_commit" /\ task[c].pc # "send" /\ ~reply[c].live

\* no step of a task serving the upload, other than the install step of its
\* commit query, changes the entry under uppercase(key)
C5_UploadStep ==
    \A c \in Clients :
        (/\ client[c].kind = "set" /\ TxnKey(c) # MsgKey(c)
         /\ Steps(c) /\ task[c].pc # "a_set")
        => Lookup(db', MsgKey(c)) = Lookup(db, MsgKey(c))

\* with an upload and a download of its key as the only commands, every
\* read answered before the commit installs the message returns the marker
\* of an absent key
C5_ReadBeforeCommit ==
    \A c, d \in Clients :
        (/\ c # d /\ nops = 2
         /\ client[c].kind = "set" /\ TxnKey(c) # MsgKey(c) /\ PreInstall(c)
         /\ client[d].kind = "get" /\ MsgKey(d) = MsgKey(c))
        => /\ MsgKey(c) \notin DOMAIN db
           /\ client[d].incoming \in {<<>>, DEFAULT_MARKER}
           /\ reply[d].live => parse_txt_response(reply[d]) = DEFAULT_MARKER

\* C5: for an upload under a transaction id T that differs from
\* uppercase(key), no chunk-write query of T creates or changes the entry
\* under uppercase(key); the entry changes on account of the upload only when
\* the commit query is processed, and a TXT read of key before the commit
\* returns none of the upload's text.
C5_CommitStep == [](C5_ReadBeforeCommit) /\ [][C5_UploadStep]_vars

\* a read of the key was answered while all the chunks of the upload were in
\* the store under T
C5_Witness ==
    \E c, d \in Clients :
        /\ c # d /\ nops = 2
        /\ client[c].kind = "set" /\ TxnKey(c) # MsgKey(c)
        /\ client[c].pc = "wait_commit" /\ net[c].live
        /\ TxnKey(c) \in DOMAIN db /\ db[TxnKey(c)] = client[c].encoded
        /\ client[d].kind = "get" /\ MsgKey(d) = MsgKey(c)
        /\ reply[d].live /\ parse_txt_response(reply[d]) = DEFAULT_MARKER

\* the install step of a commit puts the text the commit took from under T
\* in the place of whatever the key held
C6_InstallStep ==
    \A c \in Clients : (task[c].pc = "a_set" /\ Steps(c)) =>
        /\ task[c].name \in DOMAIN db'
        /\ db'[task[c].name] = task[c].value

\* an upload run after another one of the same key (its key had an entry
\* when it started) leaves its own encoded text under the key
C6_SecondUpload ==
    \A c \in Clients : (C1_Case(c) /\ client[c].snap.some) =>
        /\ MsgKey(c) \in DOMAIN db
        /\ db[MsgKey(c)] = client[c].encoded

\* C6: when two uploads for the same key (same after uppercasing) are
\* committed one after the other, the store entry under that key after the
\* second commit is exactly what the second commit installs, with nothing of
\* the first upload's content left, whether the first entry was whole or
\* partly read.
C6_Overwrite == [](C6_SecondUpload) /\ [][C6_InstallStep]_vars

\* the second commit is about to install over the remainder a read left of
\* the first upload (M3 under "K", then M2 under "k")
C6_Witness ==
    \E c \in Clients :
        /\ task[c].pc = "a_set"
        /\ task[c].value = encode(M2)
        /\ task[c].name \in DOMAIN db
        /\ db[task[c].name] = SubSeq(encode(M3), MAX_TXT + 1, Len(encode(M3)))

\* the task of c is at an AAAA question whose name has no '.'
Malformed(c) ==
    /\ AtQuestion(c, {"AAAA"})
    /\ \A i \in 1..Len(task[c].qs[task[c].i].qname) :
           task[c].qs[task[c].i].qname[i] # 46

\* the malformed query ends its task with no reply and changes nothing else
C7_MalformedStep ==
    \A c \in Clients : (Malformed(c) /\ Steps(c)) =>
        /\ db' = db
        /\ reply' = reply
        /\ net' = net
        /\ task'[c] = NoTask
        /\ \A d \in Clients \ {c} : task'[d] = task[d]

\* the server can always take the next datagram (the guard of ServerRecv)
\* and the next step of a task (the guards of the handlers' steps)
C7_ServerGoesOn ==
    \A d \in Clients :
        /\ net[d].live => task[d].pc = "none"
        /\ task[d].pc # "none" =>
              \/ task[d].pc \in {"parse", "a_set", "txt_put", "send"}
              \/ AtQuestion(d, {"A", "AAAA", "TXT", "MX"})

\* C7: an AAAA query whose name contains no '.' gets no reply and leaves
\* every store entry unchanged, and the server goes on handling later and
\* concurrent queries.
C7_Isolation == [](C7_ServerGoesOn) /\ [][C7_MalformedStep]_vars

\* the malformed query of one peer has ended unanswered beside an upload in
\* progress, whose entry is in the store and whose next query is being served
C7_Witness ==
    \E c, d \in Clients :
        /\ client[c].pc = "raw" /\ ServerDone(c) /\ ~reply[c].live
        /\ client[c].chunks[1].qtype = "AAAA"
        /\ client[d].kind = "set" /\ client[d].idx > 1
        /\ TxnKey(d) \in DOMAIN db
        /\ task[d].pc = "loop"

\* the store key a step of c's task works on
StepKey(c) ==
    IF task[c].pc \in {"a_set", "txt_put"} THEN task[c].name
    ELSE IF task[c].qs[task[c].i].qtype = "AAAA"
         THEN (IF Len(Split(QName(c))) < 2 THEN <<>> ELSE Split(QName(c))[2])
         ELSE QName(c)

\* C8 as stated: each read-modify-write of one store entry done for one
\* query happens under one continuous hold of the store lock: between the
\* read of a TXT query and its write-back of the remainder no other task
\* reads or changes that entry (so a concurrent TXT read of the key never
\* gets the default marker, and the write-back never overwrites an entry
\* committed in between).
C8_AtomicReadModifyWrite ==
    [][\A c \in Clients : task[c].pc = "txt_put" =>
          \A d \in Clients \ {c} :
              Steps(d) => StepKey(d) # task[c].name]_vars

\* two uploads, of different transaction ids and keys, are the only commands
C9_Config(c, d) ==
    /\ c # d /\ nops = 2
    /\ client[c].kind = "set" /\ client[d].kind = "set"
    /\ client[c].id # client[d].id
    /\ MsgKey(c) # MsgKey(d)

NoCollision(c, d) == TxnKey(c) # MsgKey(d) /\ TxnKey(d) # MsgKey(c)

\* what upload c finds: its chunks so far under T, in send order; all of
\* them when its commit is processed; its commit answered; its message under
\* its key from then on
C9_Own(c) ==
    /\ (client[c].pc = "wait_chunk" /\ ServerDone(c)) =>
          /\ reply[c].live
          /\ TxnKey(c) \in DOMAIN db
          /\ db[TxnKey(c)] = Concat(SubSeq(client[c].chunks, 1, client[c].idx))
    /\ task[c].pc = "a_set" =>
          /\ task[c].value = client[c].encoded
          /\ task[c].name = MsgKey(c)
    /\ (client[c].pc = "wait_commit" /\ ServerDone(c)) => reply[c].live
    /\ ((client[c].pc = "wait_commit" /\ reply[c].live) \/ client[c].pc = "done") =>
          /\ MsgKey(c) \in DOMAIN db
          /\ db[MsgKey(c)] = client[c].encoded

\* C9 as stated: two uploads running concurrently under different
\* transaction ids and different keys do not interfere, under every
\* interleaving of their queries.
C9_AnyIdsAndKeys ==
    \A c, d \in Clients : C9_Config(c, d) => C9_Own(c)

\* C9 amended: they do not interfere provided neither transaction id equals,
\* after uppercasing, the key of the other upload.
C9_NoInterference ==
    \A c, d \in Clients : (C9_Config(c, d) /\ NoCollision(c, d)) => C9_Own(c)

\* both uploads, of several chunks each, have their commits answered at the
\* same time
C9_Witness ==
    \E c, d \in Clients :
        /\ C9_Config(c, d) /\ NoCollision(c, d)
        /\ TxnKey(c) # MsgKey(c) /\ TxnKey(d) # MsgKey(d)
        /\ Len(client[c].chunks) > 1 /\ Len(client[d].chunks) > 1
        /\ client[c].pc = "wait_commit" /\ reply[c].live
        /\ client[d].pc = "wait_commit" /\ reply[d].live
        /\ db[MsgKey(c)] = client[c].encoded /\ db[MsgKey(d)] = client[d].encoded

\* a text with each of its characters replaced by its upper case; a text is
\* upper case when that changes nothing
Folded(s) == Uppercased(s)
IsFolded(s) == Folded(s) = s

C10_KeysFolded ==
    /\ \A k \in DOMAIN db : IsFolded(k)
    /\ \A c \in Clients : IsFolded(task[c].name)

\* the key a step looks up: the folded query name (its second label for a
\* chunk-write), or the folded key of the decoded message
FoldedKey(c) ==
    IF task[c].pc = "a_set" THEN Folded(decode(task[c].value).key)
    ELSE IF task[c].pc = "txt_put" THEN Folded(task[c].qs[task[c].i].qname)
    ELSE IF task[c].qs[task[c].i].qtype = "AAAA"
         THEN Split(Folded(task[c].qs[task[c].i].qname))[2]
         ELSE Folded(task[c].qs[task[c].i].qname)

\* a step of a task reads and changes the store under the folded key only
C10_FoldedStep ==
    \A c \in Clients : (Steps(c) /\ db' # db) =>
        /\ \A k \in (DOMAIN db) \cup (DOMAIN db') :
               Lookup(db', k) # Lookup(db, k) => k = FoldedKey(c)
        /\ (AtQuestion(c, {"TXT"}) /\ FoldedKey(c) \in DOMAIN db) =>
               /\ FoldedKey(c) \notin DOMAIN db'
               /\ task'[c].pc = "txt_put" =>
                      task'[c].txt \o task'[c].remainder = db[FoldedKey(c)]
               /\ Len(Pushed(c)') > Len(Pushed(c)) =>
                      Last(Pushed(c)').data = db[FoldedKey(c)]

\* C10: every key of the store is uppercase, and every server operation
\* (chunk-write by transaction id, commit by transaction id, install by
\* message key, TXT read by name) looks its key up after folding it to
\* uppercase, so names that differ only in letter case address the same
\* entry.
C10_CaseFolding == [](C10_KeysFolded) /\ [][C10_FoldedStep]_vars

\* the message uploaded with key "K" under the id "1c" is being read by the
\* name "k"
C10_Witness ==
    \E c \in Clients :
        /\ client[c].kind = "get" /\ client[c].key = <<107>>
        /\ reply[c].live
        /\ parse_txt_response(reply[c]) = SubSeq(encode(M3), 1, MAX_TXT)
        /\ DOMAIN db = {<<75>>}

\* the number of hexadecimal digits of a 16-bit id written without padding
HexLen(id) == IF id < 16 THEN 1 ELSE IF id < 256 THEN 2 ELSE IF id < 4096 THEN 3 ELSE 4

\* C11: for every transaction id of the 16-bit range and every encoded
\* payload, the payload is split into chunks of 63 minus the suffix length
\* (the suffix is '.' plus the hex id): every query name chunk + '.' + id is
\* at most 63 long, every chunk but the last has exactly the chunk size, and
\* the chunks concatenated in order are the payload.
C11_ChunkSize ==
    \A c \in Clients : client[c].pc = "split" =>
        LET cs   == client[c].chunks
            size == MAX_FQDN - (1 + HexLen(client[c].id))
        IN /\ Len(Suffix(client[c].id)) = 1 + HexLen(client[c].id)
           /\ Len(cs) >= 1
           /\ \A i \in 1..Len(cs) :
                /\ Len(cs[i] \o Suffix(client[c].id)) <= MAX_FQDN
                /\ i < Len(cs) => Len(cs[i]) = size
                /\ Len(cs[i]) \in 1..size
           /\ Concat(cs) = client[c].encoded

\* a payload split under the four-digit id ffff into two full chunks of 58
\* and a shorter last one
C11_Witness ==
    /\ client[1].pc = "split" /\ client[1].id = 65535
    /\ Len(client[1].chunks) = 3
    /\ Len(client[1].chunks[1] \o Suffix(65535)) = MAX_FQDN
    /\ Len(client[1].chunks[3]) < Len(client[1].chunks[2])

\* the task of c is at a commit query whose name has an entry that does not
\* decode to a Message
UndecodableCommit(c) ==
    /\ AtQuestion(c, {"A"})
    /\ QName(c) \in DOMAIN db
    /\ ~decode(db[QName(c)]).ok

\* the commit attempt removes the entry under T, changes no other entry,
\* ends its task with no reply and touches no other task or datagram
C12_FailedCommitStep ==
    \A c \in Clients : (UndecodableCommit(c) /\ Steps(c)) =>
        /\ db' = Remove(db, QName(c))
        /\ reply' = reply
        /\ net' = net
        /\ task'[c] = NoTask
        /\ \A d \in Clients \ {c} : task'[d] = task[d]

\* C12: a commit query for a transaction id T whose accumulated text does not
\* decode to a Message gets no reply, installs or changes no entry under any
\* message key, and does not stop the server from handling other queries;
\* the entry under T is read and removed by the attempt.
C12_CommitDecodeFailure == [](C7_ServerGoesOn) /\ [][C12_FailedCommitStep]_vars

\* a peer's commit query for "ab" has ended unanswered after the first chunk
\* of the upload under the id ab was stored: the chunk, which does not
\* decode, is gone, and the upload's second chunk is on its way
C12_Witness ==
    \E c, d \in Clients :
        /\ client[c].pc = "raw" /\ ServerDone(c) /\ ~reply[c].live
        /\ client[c].chunks = << Question("A", <<97, 98>>) >>
        /\ client[d].kind = "set" /\ client[d].id = 171
        /\ client[d].pc = "wait_chunk" /\ client[d].idx = 2 /\ net[d].live
        /\ ~decode(client[d].chunks[1]).ok
        /\ db = <<>>

\* client c sends a datagram
Sends(c) == net'[c] # net[c] /\ net'[c].live
Waiting(c) == client[c].pc \in {"wait_chunk", "wait_commit"}

\* what an upload sends and when: its first chunk at its start; after a
\* reply to chunk i chunk i+1, or after a reply to the last chunk the commit
\* query; it moves on only on a reply, and ends with success only on a
\* reply to the commit query
C13_UploadStep ==
    \A c \in Clients :
        /\ (Sends(c) /\ client'[c].kind = "set") =>
              IF ~Waiting(c)
              THEN /\ client'[c].pc = "wait_chunk" /\ client'[c].idx = 1
                   /\ net'[c].qs = << Question("AAAA",
                          client'[c].chunks[1] \o Suffix(client'[c].id)) >>
              ELSE /\ reply[c].live
                   /\ client[c].pc = "wait_chunk"
                   /\ client'[c].chunks = client[c].chunks
                   /\ IF client[c].idx < Len(client[c].chunks)
                      THEN /\ client'[c].pc = "wait_chunk"
                           /\ client'[c].idx = client[c].idx + 1
                           /\ net'[c].qs = << Question("AAAA",
                                  client[c].chunks[client[c].idx + 1]
                                      \o Suffix(client[c].id)) >>
                      ELSE /\ client'[c].pc = "wait_commit"
                           /\ net'[c].qs = << Question("A", Hex(client[c].id)) >>
        /\ (client[c].kind = "set" /\ Waiting(c)
            /\ (client'[c].pc # client[c].pc \/ client'[c].idx # client[c].idx
                \/ Sends(c)))
              => reply[c].live
        /\ (client[c].kind = "set" /\ Waiting(c) /\ client'[c].pc = "done")
              => client[c].pc = "wait_commit" /\ reply[c].live

\* an upload waits for one query at a time, and its chunks are its payload
C13_OneAtATime ==
    \A c \in Clients : (client[c].kind = "set" /\ Waiting(c)) =>
        /\ Concat(client[c].chunks) = client[c].encoded
        /\ client[c].idx \in 1..Len(client[c].chunks)
        /\ client[c].pc = "wait_commit" => client[c].idx = Len(client[c].chunks)
        /\ ~(net[c].live /\ reply[c].live)
        /\ ~(task[c].pc # "none" /\ reply[c].live)
        /\ ~client[c].replied

\* C13: in one client upload the chunk-write queries are sent in payload
\* order, query i+1 only after a reply to query i, the commit query only
\* after a reply to the last chunk-write query, and success is reported only
\* after a reply to the commit query; while an awaited reply does not arrive
\* the client sends nothing further and does not report success.
C13_StopAndWait == [](C13_OneAtATime) /\ [][C13_UploadStep]_vars

\* the commit query of a two-chunk upload was served without a reply (a peer
\* had removed its first chunk): the client waits, with no reply to come
C13_Witness ==
    \E c \in Clients :
        /\ client[c].kind = "set" /\ client[c].pc = "wait_commit"
        /\ Len(client[c].chunks) > 1
        /\ ServerDone(c) /\ ~reply[c].live
        /\ \A d \in Clients \ {c} : client[d].pc = "done" /\ client[d].kind = "raw"
        /\ nops = limit

\* a chunk-write query for T appends its chunk to whatever the store has
\* under uppercase(T), a committed entry included, and changes nothing else
C14_ChunkStep ==
    \A c \in Clients : (AtQuestion(c, {"AAAA"}) /\ ~Malformed(c) /\ Steps(c)) =>
        LET parts == Split(QName(c)) IN
        /\ parts[2] \in DOMAIN db'
        /\ db'[parts[2]] = unwrap_or(Lookup(db, parts[2]), <<>>) \o parts[1]
        /\ \A k \in (DOMAIN db \cup DOMAIN db') \ {parts[2]} :
               Lookup(db', k) = Lookup(db, k)

\* a commit query naming a key with an entry takes the entry out of the
\* store; if its text decodes, the query then puts the same text under the
\* uppercased key of the decoded message, and otherwise ends with no reply
C14_CommitSteps ==
    \A c \in Clients :
        /\ (AtQuestion(c, {"A"}) /\ QName(c) \in DOMAIN db /\ Steps(c)) =>
              /\ db' = Remove(db, QName(c))
              /\ IF decode(db[QName(c)]).ok
                 THEN /\ task'[c].pc = "a_set"
                      /\ task'[c].value = db[QName(c)]
                      /\ task'[c].name = Folded(decode(db[QName(c)]).key)
                 ELSE task'[c] = NoTask /\ reply' = reply
        /\ (task[c].pc = "a_set" /\ Steps(c)) =>
              /\ db' = Insert(db, task[c].name, task[c].value)

\* C14 as stated: a chunk-write query whose transaction id equals (after
\* uppercasing) the key of a committed entry appends the chunk text to that
\* entry, a commit query naming a committed key removes that entry (the
\* entry is absent once the query has been handled), and with no such
\* collision a committed entry is not changed by chunk-write queries.
C14_CommitRemovesEntry ==
    [][/\ C14_ChunkStep
       /\ \A c \in Clients :
             (task[c].pc = "a_set" /\ Steps(c) /\ QName(c) = task[c].name)
                 => task[c].name \notin DOMAIN db']_vars

\* C14 amended: a chunk-write query whose transaction id equals (after
\* uppercasing) the key of a committed entry appends the chunk text to that
\* entry; a commit query naming a committed key takes that entry out of the
\* store and, when its text still decodes to a Message, installs the same
\* text again under the uppercased key of that message (for a whole entry,
\* the same key), and otherwise leaves it removed and sends no reply; with
\* no such collision an entry is not changed by chunk-write queries.
C14_Collision == [][C14_ChunkStep /\ C14_CommitSteps]_vars

\* a peer's commit query for "ab" has taken the committed entry of M1 out of
\* the store and is about to install it again under "AB"
C14_Witness ==
    \E c \in Clients :
        /\ client[c].kind = "raw"
        /\ task[c].pc = "a_set"
        /\ QName(c) = <<65, 66>>
        /\ task[c].name = <<65, 66>>
        /\ task[c].value = encode(M1)
        /\ <<65, 66>> \notin DOMAIN db

\* a TXT read of a name with no entry leaves the store as it is and answers
\* the marker; a TXT read of an entry whose text is the marker answers the
\* same record
C15_ReadStep ==
    \A c \in Clients : (AtQuestion(c, {"TXT"}) /\ Steps(c)) =>
        /\ QName(c) \notin DOMAIN db =>
              /\ db' = db
              /\ task'[c].pc # "txt_put"
              /\ Pushed(c)' = Append(task[c].answers, Answer("TXT", DEFAULT_MARKER))
        /\ (QName(c) \in DOMAIN db /\ db[QName(c)] = DEFAULT_MARKER) =>
              /\ task'[c].pc # "txt_put"
              /\ Pushed(c)' = Append(task[c].answers, Answer("TXT", DEFAULT_MARKER))

\* C15: a TXT query for a name with no store entry is answered with the
\* default marker, the 4-byte text "AAAA", not with an error, and leaves the
\* store unchanged (no entry is created for the name); the reply is the same
\* as the one for a key whose stored text is exactly the marker.
C15_AbsentKey == [][C15_ReadStep]_vars

\* a download of "k" is answered the marker while the store has the entry of
\* M1 under "AB" and none under "K", before and after
C15_Witness ==
    \E c \in Clients :
        /\ client[c].kind = "get" /\ client[c].key = <<107>>
        /\ client[c].alone /\ ~client[c].snap.some
        /\ reply[c].live
        /\ reply[c].answers = << Answer("TXT", DEFAULT_MARKER) >>
        /\ DOMAIN db = {<<65, 66>>}
        /\ db[<<65, 66>>] = encode(M1)

\* the step of a download that takes a reply: a slice shorter than 255 bytes
\* ends the download and nothing is sent; a slice of 255 bytes is followed
\* by one more read of the same key
C16_ReplyStep ==
    \A c \in Clients :
        (client[c].kind = "get" /\ client[c].pc = "wait_txt"
         /\ (client'[c].incoming # client[c].incoming \/ client'[c].pc # client[c].pc)) =>
            /\ reply[c].live
            /\ IF Len(parse_txt_response(reply[c])) < MAX_TXT
               THEN /\ client'[c].pc \in {"done", "failed"}
                    /\ net' = net
               ELSE /\ client'[c].pc = "wait_txt"
                    /\ net'[c] = Datagram(<< Question("TXT", client[c].key) >>)

\* a download that has ended sends nothing
C16_EndedSilent ==
    \A c \in Clients : (client[c].kind = "get" /\ Ended(c)) =>
        ~net[c].live /\ task[c].pc = "none" /\ ~reply[c].live

\* a download that runs with no other client beside it gets a reply to every
\* read the server is done with
C16_ReadAnswered ==
    \A c \in Clients :
        (/\ client[c].kind = "get" /\ client[c].pc = "wait_txt"
         /\ client[c].alone /\ ServerDone(c))
        => reply[c].live

\* C16 as stated: with every query and reply delivered and no other client
\* writing the key, a client download of any key (present with any length,
\* or absent) stops after finitely many TXT reads: each of its reads is
\* answered, it stops at the first reply shorter than 255 bytes and sends no
\* read after it, and it does not wait for ever.
C16_DownloadTerminates ==
    /\ [](C16_EndedSilent /\ C16_ReadAnswered)
    /\ [][C16_ReplyStep]_vars
    /\ \A c \in Clients :
           ~<>[](client[c].kind = "get" /\ client[c].pc = "wait_txt"
                    /\ client[c].alone)

\* upload c has stored chunks under its transaction id and has not sent its
\* commit query: the entry under uppercase(T) is a partial upload
Partial(c) ==
    /\ client[c].kind = "set" /\ client[c].pc = "wait_chunk"
    /\ TxnKey(c) \in DOMAIN db

\* the key the query a task is serving names: the uppercased name, or its
\* second label for a chunk-write query
NamedKey(d) ==
    IF task[d].qs[task[d].i].qtype = "AAAA"
    THEN (IF Len(Split(QName(d))) < 2 THEN <<>> ELSE Split(QName(d))[2])
    ELSE QName(d)

\* C17 as stated: the entry of a partial upload under uppercase(T) stays in
\* the store unchanged through every server operation that does not name T
\* (whose query name, or second label for a chunk-write, is not T), and no
\* other step removes it.
C17_QueryNamesT ==
    [][\A c \in Clients :
          (Partial(c) /\ Lookup(db', TxnKey(c)) # Lookup(db, TxnKey(c))) =>
              \E d \in Clients : Steps(d) /\ NamedKey(d) = TxnKey(c)]_vars

\* C17 amended: the entry stays unchanged through every server operation
\* that neither names T nor installs a message whose uppercased key is
\* uppercase(T); no timeout, expiry or cleanup step removes it.
C17_OrphanKept ==
    [][/\ \A c \in Clients :
             (Partial(c) /\ Lookup(db', TxnKey(c)) # Lookup(db, TxnKey(c))) =>
                 \E d \in Clients : Steps(d) /\ StepKey(d) = TxnKey(c)
       /\ db' # db => \E d \in Clients : Steps(d)]_vars

\* the first chunk of an upload is stored and answered, its client has sent
\* nothing since, and the commit of another upload is installing its message
\* under another key
C17_Witness ==
    \E c, d \in Clients :
        /\ c # d
        /\ Partial(c) /\ reply[c].live /\ client[c].idx = 1
        /\ db[TxnKey(c)] = client[c].chunks[1]
        /\ task[d].pc = "a_set" /\ task[d].name # TxnKey(c)

\* the task of c is at a commit query whose uppercased name has no entry
UnknownCommit(c) == AtQuestion(c, {"A"}) /\ QName(c) \notin DOMAIN db

\* the commit attempt leaves the store as it is, ends its task with no reply
\* and touches no other task or datagram
C18_UnknownCommitStep ==
    \A c \in Clients : (UnknownCommit(c) /\ Steps(c)) =>
        /\ db' = db
        /\ reply' = reply
        /\ net' = net
        /\ task'[c] = NoTask
        /\ \A d \in Clients \ {c} : task'[d] = task[d]

\* C18: an A (commit) query whose uppercased name has no store entry gets no
\* reply and leaves the store unchanged, and the server keeps handling other
\* and later queries.
C18_UnknownTransaction == [](C7_ServerGoesOn) /\ [][C18_UnknownCommitStep]_vars

\* a peer's commit query for "ab" went unanswered, and the upload of M2 under
\* the id ab went through, its message installed under "K"
C18_Witness ==
    \E c, d \in Clients :
        /\ client[c].kind = "raw" /\ client[c].key = <<97, 98>>
        /\ client[c].pc = "done" /\ ~client[c].replied
        /\ client[d].kind = "set" /\ client[d].id = 171
        /\ client[d].pc = "done" /\ client[d].replied
        /\ db = (<<75>> :> encode(M2))

\* the task of c is at a TXT question whose text (the entry, or the marker)
\* cannot be cut at byte 255: split_at panics
TxtPanics(c) ==
    /\ AtQuestion(c, {"TXT"})
    /\ LET value == unwrap_or(Lookup(db, QName(c)), DEFAULT_MARKER)
       IN ~is_char_boundary(value, Min(Len(value), MAX_TXT))

\* the question the task of c is at is one that fails: a type other than A,
\* AAAA and TXT, a chunk-write name with no dot, a commit query with no
\* entry or with one that does not decode, a TXT read that panics
FailsNow(c) ==
    \/ task[c].pc = "loop" /\ task[c].qs[task[c].i].qtype \notin {"A", "AAAA", "TXT"}
    \/ Malformed(c)
    \/ UnknownCommit(c)
    \/ UndecodableCommit(c)
    \/ TxtPanics(c)

\* answers are one per question, in question order
InOrder(answers, qs) ==
    /\ Len(answers) <= Len(qs)
    /\ \A j \in 1..Len(answers) : answers[j].rtype = qs[j].qtype

\* a task has one answer for each question before the one it is at, and is
\* past the loop exactly when it has one for every question; a reply is
\* there only when its task has ended, and a reply to a peer's datagram has
\* one answer per question
C19_Answers ==
    \A c \in Clients :
        /\ task[c].pc # "none" =>
              /\ Len(task[c].answers) = task[c].i - 1
              /\ InOrder(task[c].answers, task[c].qs)
              /\ ~reply[c].live
        /\ task[c].pc = "loop" => task[c].i <= Len(task[c].qs)
        /\ task[c].pc = "send" => Len(task[c].answers) = Len(task[c].qs)
        /\ (reply[c].live /\ client[c].pc = "raw") =>
              /\ Len(reply[c].answers) = Len(client[c].chunks)
              /\ InOrder(reply[c].answers, client[c].chunks)
        /\ (reply[c].live /\ client[c].pc # "raw") => Len(reply[c].answers) = 1

\* a step of a task at a question that fails ends the task with no reply and
\* changes no entry but the one under its own key; any other step of a
\* handler sends nothing and leaves the task at the same question or at the
\* next one, past the loop after the last
C19_QuestionStep ==
    \A c \in Clients : Steps(c) =>
        IF FailsNow(c)
        THEN /\ task'[c] = NoTask
             /\ reply' = reply
             /\ \A k \in (DOMAIN db \cup DOMAIN db') \ {StepKey(c)} :
                    Lookup(db', k) = Lookup(db, k)
        ELSE /\ reply' = reply
             /\ task'[c].pc # "none"
             /\ task'[c].qs = task[c].qs
             /\ task'[c].i \in {task[c].i, task[c].i + 1}
             /\ task'[c].pc = "send" <=> task'[c].i = Len(task[c].qs) + 1

\* the reply of the task of c is sent: the one reply to its datagram, with
\* the answers the task has, one per question in question order
ReplySent(c) ==
    /\ ~reply[c].live /\ reply'[c].live
    /\ reply'[c].answers = task[c].answers
    /\ Len(reply'[c].answers) = Len(task[c].qs)
    /\ InOrder(reply'[c].answers, task[c].qs)
    /\ \A d \in Clients \ {c} : reply'[d] = reply[d]

\* a reply is sent by no step but the last step of a task whose questions
\* were all handled
C19_OnlyIf ==
    \A c \in Clients :
        (reply'[c] # reply[c] /\ reply'[c].live) => (Runs(c) /\ task[c].pc = "send")

\* the last step of a task whose questions were all handled sends the reply
C19_If ==
    \A c \in Clients : (Runs(c) /\ task[c].pc = "send") =>
        /\ task'[c] = NoTask
        /\ db' = db
        /\ ReplySent(c)

\* C19 as stated: the server sends exactly one reply to a datagram if and
\* only if every question in it was handled without error, and the reply
\* carries one answer per question in question order; when a question fails,
\* handling stops there with no reply, the remaining questions are not
\* processed, and the store changes made by the questions before it are kept.
C19_ReplyIffHandled ==
    [](C19_Answers) /\ [][C19_QuestionStep /\ C19_OnlyIf /\ C19_If]_vars

\* the reply of the task of c cannot be sent: the port of the peer's address
\* is 0, or the reply packet is longer than a UDP datagram
Unsendable(c) ==
    \/ task[c].peer = 0
    \/ 12 + WireSum(task[c].qs, task[c].answers, Len(task[c].qs)) > 65507

\* the last step of a task whose questions were all handled sends the reply
\* unless the reply cannot be sent; then the task ends with no reply, and
\* the store stays as the questions left it
C19_SendStep ==
    \A c \in Clients : (Runs(c) /\ task[c].pc = "send") =>
        /\ task'[c] = NoTask
        /\ db' = db
        /\ IF Unsendable(c) THEN reply' = reply ELSE ReplySent(c)

\* the first step of a task: bytes that are no DNS packet end it with no
\* reply and no change of the store; a packet has its questions handled
\* from the first on, and none of them handled if it has none
C19_ParseStep ==
    \A c \in Clients : (Runs(c) /\ task[c].pc = "parse") =>
        /\ db' = db
        /\ reply' = reply
        /\ IF task[c].packet
           THEN /\ task'[c].pc = (IF task[c].qs = <<>> THEN "send" ELSE "loop")
                /\ task'[c].qs = task[c].qs
                /\ task'[c].i = 1
                /\ task'[c].peer = task[c].peer
           ELSE task'[c] = NoTask

\* C19 amended: the server sends at most one reply to a datagram, and only
\* when the datagram is a DNS packet and every question in it was handled
\* without error; that reply carries one answer per question in question
\* order, and it is sent unless the reply cannot be sent (a peer address of
\* port 0, a reply longer than a UDP datagram): then there is no reply and
\* the store changes are kept.  When a question fails, handling stops there
\* with no reply, the remaining questions are not processed, and the store
\* changes made by the questions before it are kept.
C19_ReplyRule ==
    /\ [](C19_Answers)
    /\ [][C19_QuestionStep /\ C19_OnlyIf /\ C19_SendStep /\ C19_ParseStep]_vars

\* the datagram of a chunk-write mz.7 and a read of "ab" sent from port 0 has
\* been handled: both questions answered, no reply, and the chunk is in the
\* store under "7"
C19_Witness ==
    \E c \in Clients :
        /\ client[c].pc = "raw" /\ client[c].port = 0
        /\ ServerDone(c) /\ ~reply[c].live
        /\ client[c].chunks =
               << Question("AAAA", <<109, 122, 46, 55>>), Question("TXT", <<97, 98>>) >>
        /\ db = (<<55>> :> <<77, 90>>)

\* the entries the operation the task of c is running may change: for a
\* chunk-write of T the one under uppercase(T); for a TXT read of K the one
\* under uppercase(K); for a commit of T the ones under uppercase(T) and,
\* once the text is decoded, under the uppercased message key
Frame(c) ==
    LET q == task[c].qs[task[c].i] IN
    IF q.qtype = "AAAA"
    THEN (IF Len(Split(Folded(q.qname))) < 2 THEN {} ELSE {Split(Folded(q.qname))[2]})
    ELSE IF q.qtype = "TXT" THEN {Folded(q.qname)}
    ELSE IF q.qtype = "A"
         THEN {Folded(q.qname)} \cup
              (IF task[c].pc = "a_set" THEN {Folded(decode(task[c].value).key)} ELSE {})
         ELSE {}

C20_FrameStep ==
    \A c \in Clients : Steps(c) =>
        \A k \in (DOMAIN db \cup DOMAIN db') \ Frame(c) :
            Lookup(db', k) = Lookup(db, k)

\* C20: a chunk-write query for transaction id T changes only the entry
\* keyed uppercase(T); a TXT read of name K changes only the entry keyed
\* uppercase(K); a successful commit of T changes only the entries keyed
\* uppercase(T) and uppercase(message key); every other store entry is left
\* unchanged by each of these operations.
C20_Frame == [][C20_FrameStep]_vars

\* the upload of M1 has been committed beside the entry a peer's chunk-write
\* put under "K": that entry is as it was, and the entry under the
\* transaction id is gone
C20_Witness ==
    \E c, d \in Clients :
        /\ client[c].kind = "raw"
        /\ client[d].kind = "set" /\ client[d].id = 7
        /\ client[d].pc = "wait_commit" /\ reply[d].live
        /\ db = (<<75>> :> DEFAULT_MARKER) @@ (<<65, 66>> :> encode(M1))
=============================================================================
